---- MODULE Spec2Model ----
(***************************************************************************)
(* tiny-result: the Result<T, E> type of src/src/core.ts (classes Ok and   *)
(* Err, the constructors ok/err and the type guards isOk/isErr), driven by *)
(* a caller that builds one Result and then calls methods on it, chaining  *)
(* on the Result a combinator returns.                                     *)
(*                                                                         *)
(* Objects live in a heap (a sequence; a reference is an index), so that   *)
(* "returns this" and "returns new Ok(...)" are different outcomes.  Every *)
(* method is an operator from (heap, this, arguments) to a completion: how *)
(* the call ended (return / throw), with which value, the heap after it,   *)
(* and the callback invocations it made, in order.                         *)
(***************************************************************************)
EXTENDS Integers, Sequences, FiniteSets, TLC

\* Longest sequence of method calls the caller makes after the construction.
MaxOps == 3

----------------------------------------------------------------------------
(* JavaScript values.  Every value is a record of the same shape: t is the *)
(* type tag, n the number (or, for a Result object, its heap address), s   *)
(* the string (or, for an Error object, its message).                      *)

Num(n) == [t |-> "number", n |-> n, s |-> ""]
Str(s) == [t |-> "string", n |-> 0, s |-> s]
Bool(b) == [t |-> "boolean", n |-> IF b THEN 1 ELSE 0, s |-> ""]
NaN == [t |-> "NaN", n |-> 0, s |-> ""]
Undefined == [t |-> "undefined", n |-> 0, s |-> ""]
\* A plain object {} (address 0) or a Result object at heap address a >= 1.
Ref(a) == [t |-> "object", n |-> a, s |-> ""]
PlainObject == Ref(0)
\* new Error(message)
NewError(message) == [t |-> "Error", n |-> 0, s |-> message]

Digit(d) ==
  CASE d = 0 -> "0" [] d = 1 -> "1" [] d = 2 -> "2" [] d = 3 -> "3" [] d = 4 -> "4"
    [] d = 5 -> "5" [] d = 6 -> "6" [] d = 7 -> "7" [] d = 8 -> "8" [] d = 9 -> "9"

RECURSIVE NatToString(_)
NatToString(n) == IF n < 10 THEN Digit(n) ELSE NatToString(n \div 10) \o Digit(n % 10)

\* The string conversion a template literal `${x}` applies to x.
JSToString(x) ==
  CASE x.t = "number" -> IF x.n < 0 THEN "-" \o NatToString(-x.n) ELSE NatToString(x.n)
    [] x.t = "string" -> x.s
    [] x.t = "boolean" -> IF x.n = 1 THEN "true" ELSE "false"
    [] x.t = "NaN" -> "NaN"
    [] x.t = "undefined" -> "undefined"
    [] x.t = "object" -> "[object Object]"
    [] x.t = "Error" -> "Error: " \o x.s

\* x * 2 for a JavaScript value x (a non-numeric operand converts to NaN).
TimesTwo(x) == IF x.t = "number" THEN Num(2 * x.n) ELSE NaN

\* x + 5 for a JavaScript value x: a sum of numbers (a boolean counts as 0 or 1),
\* NaN for undefined and NaN, and otherwise the string of x followed by "5".
PlusFive(x) ==
  CASE x.t \in {"number", "boolean"} -> Num(x.n + 5)
    [] x.t \in {"NaN", "undefined"} -> NaN
    [] OTHER -> Str(JSToString(x) \o "5")

----------------------------------------------------------------------------
(* Completions: the way a call ends.                                       *)

Return(val, h, calls) == [kind |-> "return", val |-> val, heap |-> h, calls |-> calls]
Throw(val, h, calls) == [kind |-> "throw", val |-> val, heap |-> h, calls |-> calls]

\* One callback invocation, as the call log records it: the callback, its
\* argument, and how the callback itself ended.
Invocation(fn, arg, kind, val) == [fn |-> fn, arg |-> arg, kind |-> kind, val |-> val]

----------------------------------------------------------------------------
(* The classes.  An object keeps its class (which decides the method that  *)
(* a call dispatches to) and its fields; a field the class does not have   *)
(* reads as undefined.                                                     *)

\* new Ok(value): core.ts lines 9-12
NewOk(value) ==
  [cls |-> "Ok", ok |-> TRUE, err |-> FALSE, value |-> value, error |-> Undefined]

\* new Err(error): core.ts lines 57-60
NewErr(error) ==
  [cls |-> "Err", ok |-> FALSE, err |-> TRUE, value |-> Undefined, error |-> error]

\* Allocation: the new object gets the next address.
Alloc(h, obj, calls) == Return(Ref(Len(h) + 1), Append(h, obj), calls)

\* export const ok = value => new Ok(value)
ok(h, value) == Alloc(h, NewOk(value), <<>>)

\* export const err = error => new Err(error)
err(h, error) == Alloc(h, NewErr(error), <<>>)

\* Faulty variant: the isOk guard reads the err field.
isOk_ReadsErr(h, result) == Return(Bool(h[result].err), h, <<>>)

\* export const isOk = result => result.ok
isOk(h, result) == Return(Bool(h[result].ok), h, <<>>)

\* export const isErr = result => result.err
isErr(h, result) == Return(Bool(h[result].err), h, <<>>)

----------------------------------------------------------------------------
(* The callbacks the caller passes.  A callback is named; CallFn is what   *)
(* invoking it does.  Each invocation is recorded with its argument.       *)

\* T -> U callbacks, for map, mapErr and the handlers of match
ValueFns == {"double", "prefix", "thrower"}

\* T -> Result callbacks, for andThen and orElse
ResultFns == {"okDouble", "nonZero", "recover", "thrower"}

\* The body of callback fn, run on arg.
FnBody(h, fn, arg) ==
  CASE fn = "double" -> Return(TimesTwo(arg), h, <<>>)
    [] fn = "prefix" -> Return(Str("Error: " \o JSToString(arg)), h, <<>>)
    [] fn = "okDouble" -> ok(h, TimesTwo(arg))
    [] fn = "nonZero" ->
         IF arg = Num(0) THEN err(h, Str("Division by zero")) ELSE ok(h, arg)
    [] fn = "recover" -> ok(h, Num(42))
    [] fn = "thrower" -> Throw(NewError("boom"), h, <<>>)
    [] fn = "plusFive" -> Return(PlusFive(arg), h, <<>>)
    [] fn = "toString" -> Return(Str(JSToString(arg)), h, <<>>)

\* The callbacks of a chain of maps, and x => g(f(x)), the one callback that does
\* what two of them do in turn; it is named after its two parts.
PureFns == {"double", "plusFive", "toString"}

Composed(f, g) == g \o "(" \o f \o "(x))"

ComposedFns == {Composed(p[1], p[2]) : p \in PureFns \X PureFns}

\* The body of x => g(f(x)): f runs first, g runs on what f returned.
ComposedBody(h, fn, arg) ==
  LET p == CHOOSE q \in PureFns \X PureFns : Composed(q[1], q[2]) = fn
      inner == FnBody(h, p[1], arg)
  IN IF inner.kind = "throw" THEN inner ELSE FnBody(inner.heap, p[2], inner.val)

\* fn(arg): the completion of the body, with the invocation recorded.
CallFn(h, fn, arg) ==
  LET c == IF fn \in ComposedFns THEN ComposedBody(h, fn, arg) ELSE FnBody(h, fn, arg)
  IN [c EXCEPT !.calls = <<Invocation(fn, arg, c.kind, c.val)>>]

----------------------------------------------------------------------------
(* class Ok: core.ts lines 8-53                                            *)

\* Faulty variant: map on an Ok neither calls fn nor builds a new Ok.
Ok_map_Identity(h, this, fn) == Return(Ref(this), h, <<>>)

\* Faulty variant: map on an Ok overwrites the receiver's value and returns the
\* receiver.
Ok_map_InPlace(h, this, fn) ==
  LET c == CallFn(h, fn, h[this].value)
  IN IF c.kind = "throw"
     THEN c
     ELSE Return(Ref(this), [c.heap EXCEPT ![this].value = c.val], c.calls)

\* Faulty variant: map on an Ok passes the receiver to fn, not the receiver's value.
Ok_map_PassesThis(h, this, fn) ==
  LET c == CallFn(h, fn, Ref(this))
  IN IF c.kind = "throw" THEN c ELSE Alloc(c.heap, NewOk(c.val), c.calls)

Ok_map(h, this, fn) ==
  LET c == CallFn(h, fn, h[this].value)
  IN IF c.kind = "throw" THEN c ELSE Alloc(c.heap, NewOk(c.val), c.calls)

\* Faulty variant: mapErr on an Ok applies fn to the value.
Ok_mapErr_Applies(h, this, fn) ==
  LET c == CallFn(h, fn, h[this].value)
  IN IF c.kind = "throw" THEN c ELSE Alloc(c.heap, NewOk(c.val), c.calls)

Ok_mapErr(h, this, fn) == Return(Ref(this), h, <<>>)

\* Faulty variant: andThen on an Ok wraps what fn returned in a new Ok, as map does.
Ok_andThen_Wraps(h, this, fn) ==
  LET c == CallFn(h, fn, h[this].value)
  IN IF c.kind = "throw" THEN c ELSE Alloc(c.heap, NewOk(c.val), c.calls)

\* Faulty variant: andThen on an Ok catches what fn throws and returns it as an Err.
Ok_andThen_Catches(h, this, fn) ==
  LET c == CallFn(h, fn, h[this].value)
  IN IF c.kind = "throw" THEN Alloc(c.heap, NewErr(c.val), c.calls) ELSE c

Ok_andThen(h, this, fn) == CallFn(h, fn, h[this].value)

Ok_orElse(h, this, fn) == Return(Ref(this), h, <<>>)

\* Faulty variant: match on an Ok runs the err handler.
Ok_match_ErrHandler(h, this, okFn, errFn) == CallFn(h, errFn, h[this].value)

Ok_match(h, this, okFn, errFn) == CallFn(h, okFn, h[this].value)

Ok_unwrap(h, this) == Return(h[this].value, h, <<>>)

Ok_unwrapOr(h, this, defaultValue) == Return(h[this].value, h, <<>>)

\* Faulty variant: unwrapErr on an Ok returns the (absent) error field.
Ok_unwrapErr_Returns(h, this) == Return(h[this].error, h, <<>>)

Ok_unwrapErr(h, this) == Throw(NewError("Called unwrapErr on Ok"), h, <<>>)

Ok_isOk(h, this) == Return(Bool(TRUE), h, <<>>)

Ok_isErr(h, this) == Return(Bool(FALSE), h, <<>>)

(* class Err: core.ts lines 56-101                                         *)

\* Faulty variant: map on an Err returns a copy of the receiver, a new Err with the
\* same error.
Err_map_Copies(h, this, fn) == Alloc(h, NewErr(h[this].error), <<>>)

Err_map(h, this, fn) == Return(Ref(this), h, <<>>)

Err_mapErr(h, this, fn) ==
  LET c == CallFn(h, fn, h[this].error)
  IN IF c.kind = "throw" THEN c ELSE Alloc(c.heap, NewErr(c.val), c.calls)

\* Faulty variant: andThen on an Err invokes fn all the same.
Err_andThen_Invokes(h, this, fn) == CallFn(h, fn, h[this].error)

\* Faulty variant: andThen on an Err builds a new Err from the (absent) value field.
Err_andThen_LosesError(h, this, fn) == Alloc(h, NewErr(h[this].value), <<>>)

Err_andThen(h, this, fn) == Return(Ref(this), h, <<>>)

\* Faulty variant: orElse on an Err keeps the Err.
Err_orElse_Keeps(h, this, fn) == Return(Ref(this), h, <<>>)

Err_orElse(h, this, fn) == CallFn(h, fn, h[this].error)

Err_match(h, this, okFn, errFn) == CallFn(h, errFn, h[this].error)

\* Faulty variant: the message of unwrap on an Err leaves the payload out.
Err_unwrap_NoPayload(h, this) == Throw(NewError("Called unwrap on Err"), h, <<>>)

Err_unwrap(h, this) ==
  Throw(NewError("Called unwrap on Err: " \o JSToString(h[this].error)), h, <<>>)

\* Faulty variant: unwrapOr on an Err returns the (absent) value field.
Err_unwrapOr_Value(h, this, defaultValue) == Return(h[this].value, h, <<>>)

Err_unwrapOr(h, this, defaultValue) == Return(defaultValue, h, <<>>)

\* Faulty variant: unwrapErr throws on an Err too.
Err_unwrapErr_Throws(h, this) == Throw(NewError("Called unwrapErr on Err"), h, <<>>)

Err_unwrapErr(h, this) == Return(h[this].error, h, <<>>)

Err_isOk(h, this) == Return(Bool(FALSE), h, <<>>)

Err_isErr(h, this) == Return(Bool(TRUE), h, <<>>)

(* A method call r.m(...) runs the method of r's class.                    *)

IsOkObject(h, r) == h[r].cls = "Ok"

Result_map(h, r, fn) == IF IsOkObject(h, r) THEN Ok_map(h, r, fn) ELSE Err_map(h, r, fn)

Result_mapErr(h, r, fn) ==
  IF IsOkObject(h, r) THEN Ok_mapErr(h, r, fn) ELSE Err_mapErr(h, r, fn)

Result_andThen(h, r, fn) ==
  IF IsOkObject(h, r) THEN Ok_andThen(h, r, fn) ELSE Err_andThen(h, r, fn)

Result_orElse(h, r, fn) ==
  IF IsOkObject(h, r) THEN Ok_orElse(h, r, fn) ELSE Err_orElse(h, r, fn)

Result_match(h, r, okFn, errFn) ==
  IF IsOkObject(h, r) THEN Ok_match(h, r, okFn, errFn) ELSE Err_match(h, r, okFn, errFn)

Result_unwrap(h, r) == IF IsOkObject(h, r) THEN Ok_unwrap(h, r) ELSE Err_unwrap(h, r)

Result_unwrapOr(h, r, d) ==
  IF IsOkObject(h, r) THEN Ok_unwrapOr(h, r, d) ELSE Err_unwrapOr(h, r, d)

Result_unwrapErr(h, r) ==
  IF IsOkObject(h, r) THEN Ok_unwrapErr(h, r) ELSE Err_unwrapErr(h, r)

Result_isOk(h, r) == IF IsOkObject(h, r) THEN Ok_isOk(h, r) ELSE Err_isOk(h, r)

Result_isErr(h, r) == IF IsOkObject(h, r) THEN Ok_isErr(h, r) ELSE Err_isErr(h, r)

----------------------------------------------------------------------------
(* The caller.                                                             *)

VARIABLES
  heap,  \* the Result objects built so far; a reference is an index
  cur,   \* the Result the caller holds: the receiver of its next call
  log    \* the calls made so far, each with its receiver and its completion

vars == <<heap, cur, log>>

\* The payloads the caller builds its first Result from.
Payloads == {Num(0), Num(2), Str("failure"), PlainObject}

\* The fallbacks the caller passes to unwrapOr.
Defaults == {Num(42), Str("failure")}

\* The handler pairs {ok, err} the caller passes to match.
Matchers == {<<"prefix", "double">>, <<"double", "prefix">>, <<"thrower", "thrower">>}

\* The log entry of a call op(fns..., arg) on receiver r that completed as c.
Entry(op, r, fns, arg, c) ==
  [op |-> op, recv |-> r, fns |-> fns, arg |-> arg,
   kind |-> c.kind, val |-> c.val, calls |-> c.calls]

\* A call that completed as c: the heap is the one it left, the call is logged,
\* and when it returned a Result (chain is TRUE) the caller goes on with it.
Step(op, fns, arg, c, chain) ==
  /\ Len(log) < MaxOps
  /\ heap' = c.heap
  /\ log' = Append(log, Entry(op, cur, fns, arg, c))
  /\ cur' = IF chain /\ c.kind = "return" THEN c.val.n ELSE cur

Init ==
  \E p \in Payloads :
    \E c \in {ok(<<>>, p), err(<<>>, p)} :
      /\ heap = c.heap
      /\ cur = c.val.n
      /\ log = <<>>

Map(fn) == Step("map", <<fn>>, Undefined, Result_map(heap, cur, fn), TRUE)

MapErr(fn) == Step("mapErr", <<fn>>, Undefined, Result_mapErr(heap, cur, fn), TRUE)

AndThen(fn) == Step("andThen", <<fn>>, Undefined, Result_andThen(heap, cur, fn), TRUE)

OrElse(fn) == Step("orElse", <<fn>>, Undefined, Result_orElse(heap, cur, fn), TRUE)

Match(m) == Step("match", m, Undefined, Result_match(heap, cur, m[1], m[2]), FALSE)

Unwrap == Step("unwrap", <<>>, Undefined, Result_unwrap(heap, cur), FALSE)

UnwrapOr(d) == Step("unwrapOr", <<>>, d, Result_unwrapOr(heap, cur, d), FALSE)

UnwrapErr == Step("unwrapErr", <<>>, Undefined, Result_unwrapErr(heap, cur), FALSE)

IsOk == Step("isOk", <<>>, Undefined, Result_isOk(heap, cur), FALSE)

IsErr == Step("isErr", <<>>, Undefined, Result_isErr(heap, cur), FALSE)

Next ==
  \/ \E fn \in ValueFns : Map(fn)
  \/ \E fn \in ValueFns : MapErr(fn)
  \/ \E fn \in ResultFns : AndThen(fn)
  \/ \E fn \in ResultFns : OrElse(fn)
  \/ \E m \in Matchers : Match(m)
  \/ Unwrap
  \/ \E d \in Defaults : UnwrapOr(d)
  \/ UnwrapErr
  \/ IsOk
  \/ IsErr

Spec == Init /\ [][Next]_vars

(* A caller that builds Results with the combinators and asks each for its  *)
(* variant, with the methods and with the free type guards isOk(r), isErr(r). *)

GuardIsOk == Step("isOk(r)", <<>>, Undefined, isOk(heap, cur), FALSE)

GuardIsErr == Step("isErr(r)", <<>>, Undefined, isErr(heap, cur), FALSE)

NextGuards ==
  \/ \E fn \in ValueFns : Map(fn)
  \/ \E fn \in ValueFns : MapErr(fn)
  \/ \E fn \in ResultFns : AndThen(fn)
  \/ \E fn \in ResultFns : OrElse(fn)
  \/ IsOk
  \/ IsErr
  \/ GuardIsOk
  \/ GuardIsErr

SpecGuards == Init /\ [][NextGuards]_vars

(* A caller that keeps its first Result r and maps over it twice: in a chain  *)
(* r.map(f).map(g), and in one call r.map(x => g(f(x))).                      *)

\* The caller goes back to r, the Result it built first.
BackToFirst ==
  /\ cur # 1
  /\ cur' = 1
  /\ UNCHANGED <<heap, log>>

NextFunctor ==
  \/ \E fn \in PureFns : Map(fn)
  \/ \E fn \in ComposedFns : Map(fn)
  \/ BackToFirst

SpecFunctor == Init /\ [][NextFunctor]_vars

----------------------------------------------------------------------------
(* tryCatch: utility.ts lines 7-16.  Its caller passes a function of no    *)
(* argument and, optionally, an error mapper; "undefined" is the mapper    *)
(* left out.  The caller's state is the same: the heap, the Result it got  *)
(* last (cur, 0 before the first call) and the log of its calls.           *)

\* The functions the caller wraps.
Thunks == {"ret42", "retObject", "throwBoom", "throwError"}

\* The error mappers the caller passes.
MapErrorFns == {"undefined", "prefix", "thrower"}

\* The body of fn, a function of no argument.
ThunkBody(h, fn) ==
  CASE fn = "ret42" -> Return(Num(42), h, <<>>)
    [] fn = "retObject" -> Return(PlainObject, h, <<>>)
    [] fn = "throwBoom" -> Throw(Str("boom"), h, <<>>)
    [] fn = "throwError" -> Throw(NewError("Division by zero"), h, <<>>)

\* fn(): the completion of the body, with the invocation recorded.
CallThunk(h, fn) ==
  LET c == ThunkBody(h, fn)
  IN [c EXCEPT !.calls = <<Invocation(fn, Undefined, c.kind, c.val)>>]

\* Faulty variant: the catch clause never applies mapError.
tryCatch_IgnoresMapError(h, fn, mapError) ==
  LET c == CallThunk(h, fn)
  IN IF c.kind = "return"
     THEN [ok(c.heap, c.val) EXCEPT !.calls = c.calls]
     ELSE [err(c.heap, c.val) EXCEPT !.calls = c.calls]

\* Faulty variant: a throwing fn is tried once more before the catch clause runs.
tryCatch_Retries(h, fn, mapError) ==
  LET first == CallThunk(h, fn)
      c == IF first.kind = "return"
           THEN first
           ELSE [CallThunk(first.heap, fn) EXCEPT !.calls = first.calls \o @]
  IN IF c.kind = "return"
     THEN [ok(c.heap, c.val) EXCEPT !.calls = c.calls]
     ELSE IF mapError # "undefined"
          THEN LET m == CallFn(c.heap, mapError, c.val)
               IN IF m.kind = "throw"
                  THEN Throw(m.val, m.heap, c.calls \o m.calls)
                  ELSE [err(m.heap, m.val) EXCEPT !.calls = c.calls \o m.calls]
          ELSE [err(c.heap, c.val) EXCEPT !.calls = c.calls]

tryCatch(h, fn, mapError) ==
  LET c == CallThunk(h, fn)
  IN IF c.kind = "return"
     THEN [ok(c.heap, c.val) EXCEPT !.calls = c.calls]
     ELSE IF mapError # "undefined"
          THEN LET m == CallFn(c.heap, mapError, c.val)
               IN IF m.kind = "throw"
                  THEN Throw(m.val, m.heap, c.calls \o m.calls)
                  ELSE [err(m.heap, m.val) EXCEPT !.calls = c.calls \o m.calls]
          ELSE [err(c.heap, c.val) EXCEPT !.calls = c.calls]

InitTryCatch ==
  /\ heap = <<>>
  /\ cur = 0
  /\ log = <<>>

TryCatch(fn, mapError) ==
  Step("tryCatch", <<fn, mapError>>, Undefined, tryCatch(heap, fn, mapError), TRUE)

NextTryCatch == \E fn \in Thunks : \E mapError \in MapErrorFns : TryCatch(fn, mapError)

SpecTryCatch == InitTryCatch /\ [][NextTryCatch]_vars

----------------------------------------------------------------------------
(* fromPromise: utility.ts lines 18-27, an async function.  Calling it     *)
(* runs the body up to `await promise` and returns a pending promise; the  *)
(* rest of the body runs as a job once the awaited promise has settled,    *)
(* and its completion settles the returned promise.  Here cur is a record: *)
(* the promise the caller passes (input), the promise it got back (output) *)
(* and where the async function is (pc).                                   *)

\* How many times the caller calls fromPromise.
MaxAwaits == 2

Pending == [state |-> "pending", val |-> Undefined]
Fulfilled(x) == [state |-> "fulfilled", val |-> x]
Rejected(c) == [state |-> "rejected", val |-> c]
\* No promise yet: fromPromise has not been called.
NoPromise == [state |-> "none", val |-> Undefined]

\* What the awaited promises fulfil with / reject with.
FulfilValues == {Num(42), Str("success")}
RejectValues == {NewError("failure"), Str("boom")}

\* An async function's completion settles the promise it returned.
SettleWith(c) == IF c.kind = "return" THEN Fulfilled(c.val) ELSE Rejected(c.val)

\* Faulty variant: the body does not await: the returned promise is fulfilled at
\* once, whatever the state of the awaited promise.
fromPromise_NoAwait(promise, mapError) == Fulfilled(Ref(0))

\* The call: the body runs up to the await, the returned promise is pending.
fromPromise(promise, mapError) == Pending

\* Faulty variant: no catch clause, a rejection is the completion of the body.
fromPromise_resume_NoCatch(h, promise, mapError) ==
  IF promise.state = "fulfilled"
  THEN ok(h, promise.val)
  ELSE Throw(promise.val, h, <<>>)

\* Faulty variant: the catch clause also catches what mapError throws, and wraps it
\* in an Err.
fromPromise_resume_CatchesMapError(h, promise, mapError) ==
  IF promise.state = "fulfilled"
  THEN ok(h, promise.val)
  ELSE IF mapError # "undefined"
       THEN LET m == CallFn(h, mapError, promise.val)
            IN [err(m.heap, m.val) EXCEPT !.calls = m.calls]
       ELSE err(h, promise.val)

\* The body from the await on, once the awaited promise has settled.
fromPromise_resume(h, promise, mapError) ==
  IF promise.state = "fulfilled"
  THEN ok(h, promise.val)
  ELSE IF mapError # "undefined"
       THEN LET m == CallFn(h, mapError, promise.val)
            IN IF m.kind = "throw"
               THEN Throw(m.val, m.heap, m.calls)
               ELSE [err(m.heap, m.val) EXCEPT !.calls = m.calls]
       ELSE err(h, promise.val)

InitFromPromise ==
  /\ heap = <<>>
  /\ log = <<>>
  /\ cur = [pc |-> "idle", input |-> Pending, output |-> NoPromise, mapError |-> "undefined"]

\* The awaited promise settles (at most once; before or after fromPromise is
\* called with it).
FulfilInput(x) ==
  /\ cur.input.state = "pending"
  /\ cur' = [cur EXCEPT !.input = Fulfilled(x)]
  /\ UNCHANGED <<heap, log>>

RejectInput(c) ==
  /\ cur.input.state = "pending"
  /\ cur' = [cur EXCEPT !.input = Rejected(c)]
  /\ UNCHANGED <<heap, log>>

\* The caller calls fromPromise(input, mapError).
FromPromise(mapError) ==
  /\ cur.pc = "idle"
  /\ Len(log) < MaxAwaits
  /\ cur' = [cur EXCEPT !.pc = "awaiting",
                        !.output = fromPromise(cur.input, mapError),
                        !.mapError = mapError]
  /\ UNCHANGED <<heap, log>>

\* The job that resumes the body after the await.
ResumeFromPromise ==
  /\ cur.pc = "awaiting"
  /\ cur.input.state # "pending"
  /\ LET c == fromPromise_resume(heap, cur.input, cur.mapError)
     IN /\ heap' = c.heap
        /\ log' = Append(log, Entry("fromPromise", 0, <<cur.mapError>>, cur.input.val, c))
        /\ cur' = [cur EXCEPT !.pc = "done", !.output = SettleWith(c)]

\* The caller goes on with another promise.
NewPromise ==
  /\ cur.pc = "done"
  /\ Len(log) < MaxAwaits
  /\ cur' = [pc |-> "idle", input |-> Pending, output |-> NoPromise, mapError |-> "undefined"]
  /\ UNCHANGED <<heap, log>>

NextFromPromise ==
  \/ \E x \in FulfilValues : FulfilInput(x)
  \/ \E c \in RejectValues : RejectInput(c)
  \/ \E mapError \in MapErrorFns : FromPromise(mapError)
  \/ ResumeFromPromise
  \/ NewPromise

\* The job queue runs a job that is ready.
SpecFromPromise ==
  InitFromPromise /\ [][NextFromPromise]_vars /\ WF_vars(ResumeFromPromise)

(* A caller that uses both wrappers: between its fromPromise calls it calls   *)
(* tryCatch, which completes within the step.                                 *)

TryCatchSync(fn, mapError) ==
  /\ cur.pc = "idle"
  /\ Step("tryCatch", <<fn, mapError>>, Undefined, tryCatch(heap, fn, mapError), FALSE)

NextWrappers ==
  \/ NextFromPromise
  \/ \E fn \in Thunks : \E mapError \in MapErrorFns : TryCatchSync(fn, mapError)

SpecWrappers ==
  InitFromPromise /\ [][NextWrappers]_vars /\ WF_vars(ResumeFromPromise)

----------------------------------------------------------------------------
(* all and partition: utility.ts lines 29-55.  Their caller holds an array *)
(* of Results (cur, a sequence of references); the heap holds the Results. *)

\* Longest array the caller passes.
MaxLen == 3

\* A JavaScript array, and the object { oks, errs } that partition returns.
Arr(items) == [t |-> "array", n |-> 0, s |-> "", items |-> items]
OksErrs(oks, errs) == [t |-> "object", n |-> 0, s |-> "", oks |-> Arr(oks), errs |-> Arr(errs)]

\* The Results the caller puts in its arrays.
Elements == {NewOk(Num(1)), NewOk(Num(2)), NewErr(Str("e1")), NewErr(Str("e2"))}

\* for (const result of results) { ... } of all, from index i on, with the values
\* pushed so far.
RECURSIVE all_loop(_, _, _, _)
all_loop(h, results, i, values) ==
  IF i > Len(results)
  THEN ok(h, Arr(values))
  ELSE LET result == results[i]
       IN IF Result_isErr(h, result).val = Bool(TRUE)
          THEN err(h, h[result].error)
          ELSE all_loop(h, results, i + 1, Append(values, h[result].value))

\* Faulty variant: the loop goes on after an Err and the last error is returned.
RECURSIVE all_loop_LastError(_, _, _, _, _)
all_loop_LastError(h, results, i, values, errors) ==
  IF i > Len(results)
  THEN IF errors = <<>> THEN ok(h, Arr(values)) ELSE err(h, errors[Len(errors)])
  ELSE LET result == results[i]
       IN IF Result_isErr(h, result).val = Bool(TRUE)
          THEN all_loop_LastError(h, results, i + 1, values, Append(errors, h[result].error))
          ELSE all_loop_LastError(h, results, i + 1, Append(values, h[result].value), errors)

all_LastError(h, results) == all_loop_LastError(h, results, 1, <<>>, <<>>)

\* Faulty variant: values are put at the front of the array (unshift for push).
RECURSIVE all_loop_Unshift(_, _, _, _)
all_loop_Unshift(h, results, i, values) ==
  IF i > Len(results)
  THEN ok(h, Arr(values))
  ELSE LET result == results[i]
       IN IF Result_isErr(h, result).val = Bool(TRUE)
          THEN err(h, h[result].error)
          ELSE all_loop_Unshift(h, results, i + 1, <<h[result].value>> \o values)

all_Unshift(h, results) == all_loop_Unshift(h, results, 1, <<>>)

\* Faulty variant: the `return err(...)` is missing: an Err element is skipped and
\* the values of the Ok elements are returned.
RECURSIVE all_loop_SkipsErrs(_, _, _, _)
all_loop_SkipsErrs(h, results, i, values) ==
  IF i > Len(results)
  THEN ok(h, Arr(values))
  ELSE LET result == results[i]
       IN IF Result_isErr(h, result).val = Bool(TRUE)
          THEN all_loop_SkipsErrs(h, results, i + 1, values)
          ELSE all_loop_SkipsErrs(h, results, i + 1, Append(values, h[result].value))

all_SkipsErrs(h, results) == all_loop_SkipsErrs(h, results, 1, <<>>)

all(h, results) == all_loop(h, results, 1, <<>>)

\* for (const result of results) { ... } of partition, from index i on.
RECURSIVE partition_loop(_, _, _, _, _)
partition_loop(h, results, i, oks, errs) ==
  IF i > Len(results)
  THEN Return(OksErrs(oks, errs), h, <<>>)
  ELSE LET result == results[i]
       IN IF Result_isOk(h, result).val = Bool(TRUE)
          THEN partition_loop(h, results, i + 1, Append(oks, h[result].value), errs)
          ELSE partition_loop(h, results, i + 1, oks, Append(errs, h[result].error))

\* Faulty variant: partition stops at the first Err, as all does.
RECURSIVE partition_loop_Stops(_, _, _, _, _)
partition_loop_Stops(h, results, i, oks, errs) ==
  IF i > Len(results)
  THEN Return(OksErrs(oks, errs), h, <<>>)
  ELSE LET result == results[i]
       IN IF Result_isOk(h, result).val = Bool(TRUE)
          THEN partition_loop_Stops(h, results, i + 1, Append(oks, h[result].value), errs)
          ELSE Return(OksErrs(oks, Append(errs, h[result].error)), h, <<>>)

partition_Stops(h, results) == partition_loop_Stops(h, results, 1, <<>>, <<>>)

partition(h, results) == partition_loop(h, results, 1, <<>>, <<>>)

\* The arrays of n Results.
ArraysOfLen(n) == [1..n -> Elements]

InitAll ==
  \E n \in 0..MaxLen :
    \E a \in ArraysOfLen(n) :
      /\ heap = [i \in 1..n |-> a[i]]
      /\ cur = [i \in 1..n |-> i]
      /\ log = <<>>

All == Step("all", <<>>, Arr(cur), all(heap, cur), FALSE)

Partition == Step("partition", <<>>, Arr(cur), partition(heap, cur), FALSE)

NextAll ==
  \/ All
  \/ Partition

SpecAll == InitAll /\ [][NextAll]_vars

----------------------------------------------------------------------------
(* Properties.  Each is about the call the caller made last; every call of *)
(* a behaviour is the last one in the state right after it.                *)

Last == log[Len(log)]

\* The caller's last call was r.op(...).
Did(op) == Len(log) > 0 /\ Last.op = op

\* The receiver of the last call.
Recv == heap[Last.recv]

\* v is a reference to an Ok holding exactly x / an Err holding exactly e.
IsOkWith(v, x) ==
  /\ v.t = "object" /\ v.n \in 1..Len(heap)
  /\ heap[v.n].cls = "Ok" /\ heap[v.n].ok /\ ~heap[v.n].err /\ heap[v.n].value = x

IsErrWith(v, e) ==
  /\ v.t = "object" /\ v.n \in 1..Len(heap)
  /\ heap[v.n].cls = "Err" /\ heap[v.n].err /\ ~heap[v.n].ok /\ heap[v.n].error = e

\* The last call invoked exactly one callback, fn, once, with argument x.
InvokedOnce(fn, x) ==
  /\ Len(Last.calls) = 1
  /\ Last.calls[1].fn = fn
  /\ Last.calls[1].arg = x

\* The last call ended the way its one callback invocation ended, with the very
\* same value (returned or thrown).
EndedAsCallback ==
  /\ Last.kind = Last.calls[1].kind
  /\ Last.val = Last.calls[1].val

\* Entries i..Len(log) of the log are one chain r.andThen(f_i)...andThen(f_n): all
\* andThen calls, each made on the Result the previous one returned.
AndThenChainFrom(i) ==
  \A k \in i..Len(log) :
    /\ log[k].op = "andThen"
    /\ k < Len(log) => log[k].kind = "return" /\ log[k + 1].recv = log[k].val.n

\* C1: in a chain r.andThen(f1)...andThen(fn), once a receiver in the chain is an
\* Err(e) (r itself, or the Err some fi returned), no later callback is invoked and
\* the result of the chain is an Err carrying exactly e; a callback that is invoked
\* is invoked on an Ok receiver, with that receiver's value.
C1_AndThenChainStopsAtFirstErr ==
  \A i \in 1..Len(log) :
    AndThenChainFrom(i) =>
      /\ heap[log[i].recv].cls = "Err" =>
           /\ Last.calls = <<>>
           /\ Last.kind = "return"
           /\ IsErrWith(Last.val, heap[log[i].recv].error)
      /\ Last.calls # <<>> =>
           /\ heap[log[i].recv].cls = "Ok"
           /\ InvokedOnce(Last.fns[1], Recv.value)

\* A chain of three andThen calls on an Ok whose first callback returned an Err.
C1_Witness ==
  /\ Len(log) = 3
  /\ AndThenChainFrom(1)
  /\ heap[log[1].recv].cls = "Ok"
  /\ Len(log[1].calls) = 1
  /\ heap[log[2].recv].cls = "Err"
  /\ log[2].calls = <<>>
  /\ log[3].fns = <<"recover">>
  /\ IsErrWith(log[3].val, Str("Division by zero"))

\* C2: err(e).andThen(f) never invokes f and returns an Err whose error is exactly e.
C2_ErrAndThenShortCircuits ==
  (Did("andThen") /\ Recv.cls = "Err") =>
    /\ Last.calls = <<>>
    /\ Last.kind = "return"
    /\ IsErrWith(Last.val, Recv.error)

C2_Witness ==
  /\ Did("andThen") /\ Recv = NewErr(Str("failure"))
  /\ Last.fns = <<"okDouble">>
  /\ IsErrWith(Last.val, Str("failure"))

\* C3: ok(v).andThen(f) invokes f exactly once, with v, and what f returns (an Ok
\* or an Err) is what andThen returns: the same object, not a wrapper around it.
C3_OkAndThenReturnsCallbackResult ==
  (Did("andThen") /\ Recv.cls = "Ok") =>
    /\ InvokedOnce(Last.fns[1], Recv.value)
    /\ Last.calls[1].kind = "return" =>
         /\ EndedAsCallback
         /\ Last.val.t = "object" /\ Last.val.n \in 1..Len(heap)
    /\ (Last.fns[1] = "okDouble" /\ Recv.value = Num(2)) => IsOkWith(Last.val, Num(4))
    /\ (Last.fns[1] = "nonZero" /\ Recv.value = Num(0)) =>
         IsErrWith(Last.val, Str("Division by zero"))

\* andThen on an Ok whose callback returned an Err.
C3_Witness ==
  /\ Did("andThen") /\ Recv = NewOk(Num(0))
  /\ Last.fns = <<"nonZero">>
  /\ Last.kind = "return"
  /\ IsErrWith(Last.val, Str("Division by zero"))

\* C4: ok(v).map(f) invokes f once with v and is a new Ok holding what f returned;
\* err(e).map(f) never invokes f and is an Err holding exactly e.
C4_Map ==
  Did("map") =>
    IF Recv.cls = "Ok"
    THEN /\ InvokedOnce(Last.fns[1], Recv.value)
         /\ Last.calls[1].kind = "return" =>
              /\ Last.kind = "return"
              /\ IsOkWith(Last.val, Last.calls[1].val)
         /\ (Last.fns[1] = "double" /\ Recv.value = Num(2)) => IsOkWith(Last.val, Num(4))
         /\ (Last.fns[1] = "prefix" /\ Recv.value = Num(2)) =>
              IsOkWith(Last.val, Str("Error: 2"))
    ELSE /\ Last.calls = <<>>
         /\ Last.kind = "return"
         /\ IsErrWith(Last.val, Recv.error)

\* map on an Ok and, before it, map on an Err.
C4_Witness ==
  /\ Len(log) = 3
  /\ log[1].op = "map" /\ heap[log[1].recv] = NewErr(Num(2)) /\ log[1].calls = <<>>
  /\ log[2].op = "orElse" /\ log[2].fns = <<"recover">>
  /\ Did("map") /\ Recv = NewOk(Num(42)) /\ Last.fns = <<"double">>
  /\ IsOkWith(Last.val, Num(84))

\* C5: err(e).mapErr(f) invokes f once with e and is a new Err holding what f
\* returned; ok(v).mapErr(f) never invokes f and is an Ok holding exactly v.
C5_MapErr ==
  Did("mapErr") =>
    IF Recv.cls = "Err"
    THEN /\ InvokedOnce(Last.fns[1], Recv.error)
         /\ Last.calls[1].kind = "return" =>
              /\ Last.kind = "return"
              /\ IsErrWith(Last.val, Last.calls[1].val)
         /\ (Last.fns[1] = "prefix" /\ Recv.error = Str("failure")) =>
              IsErrWith(Last.val, Str("Error: failure"))
    ELSE /\ Last.calls = <<>>
         /\ Last.kind = "return"
         /\ IsOkWith(Last.val, Recv.value)

\* mapErr on an Ok and then, after a failing andThen, mapErr on an Err.
C5_Witness ==
  /\ Len(log) = 3
  /\ log[1].op = "mapErr" /\ heap[log[1].recv] = NewOk(Num(0)) /\ log[1].calls = <<>>
  /\ log[2].op = "andThen" /\ log[2].fns = <<"nonZero">>
  /\ Did("mapErr") /\ Recv.cls = "Err" /\ Last.fns = <<"prefix">>
  /\ IsErrWith(Last.val, Str("Error: Division by zero"))

\* C6: err(e).orElse(g) invokes g once with e and returns what g returned, the
\* same object; ok(v).orElse(g) never invokes g and returns an Ok holding exactly v.
C6_OrElse ==
  Did("orElse") =>
    IF Recv.cls = "Err"
    THEN /\ InvokedOnce(Last.fns[1], Recv.error)
         /\ Last.calls[1].kind = "return" =>
              /\ EndedAsCallback
              /\ Last.val.t = "object" /\ Last.val.n \in 1..Len(heap)
         /\ Last.fns[1] = "recover" => IsOkWith(Last.val, Num(42))
         /\ (Last.fns[1] = "nonZero" /\ Recv.error = Num(0)) =>
              IsErrWith(Last.val, Str("Division by zero"))
    ELSE /\ Last.calls = <<>>
         /\ Last.kind = "return"
         /\ IsOkWith(Last.val, Recv.value)

\* orElse recovering an Err and then orElse on the Ok it gave.
C6_Witness ==
  /\ Len(log) = 2
  /\ log[1].op = "orElse" /\ heap[log[1].recv] = NewErr(Str("failure"))
  /\ log[1].fns = <<"recover">> /\ IsOkWith(log[1].val, Num(42))
  /\ Did("orElse") /\ Last.fns = <<"nonZero">> /\ Last.calls = <<>>
  /\ IsOkWith(Last.val, Num(42))

\* C7: match invokes exactly one handler, once: on an Ok the ok handler with the
\* value, on an Err the err handler with the error, and it ends as that handler
\* ended; the other handler is not invoked.
C7_Match ==
  Did("match") =>
    /\ IF Recv.cls = "Ok"
       THEN InvokedOnce(Last.fns[1], Recv.value)
       ELSE InvokedOnce(Last.fns[2], Recv.error)
    /\ EndedAsCallback
    /\ (Recv = NewOk(Num(2)) /\ Last.fns = <<"prefix", "double">>) =>
         Last.kind = "return" /\ Last.val = Str("Error: 2")
    /\ (Recv = NewErr(Num(2)) /\ Last.fns = <<"prefix", "double">>) =>
         Last.kind = "return" /\ Last.val = Num(4)

\* match on an Err with two different handlers.
C7_Witness ==
  /\ Did("match") /\ Recv = NewErr(Str("failure"))
  /\ Last.fns = <<"double", "prefix">>
  /\ Last.val = Str("Error: failure")

C9_UnwrapErr ==
  Did("unwrapErr") =>
    /\ Last.calls = <<>>
    /\ IF Recv.cls = "Err"
       THEN Last.kind = "return" /\ Last.val = Recv.error
       ELSE Last.kind = "throw" /\ Last.val = NewError("Called unwrapErr on Ok")

\* unwrapErr on an Ok built by a callback (it throws), after unwrapErr on an Err.
C9_Witness ==
  /\ Len(log) = 3
  /\ log[1].op = "unwrapErr" /\ log[1].kind = "return" /\ log[1].val = Num(2)
  /\ log[2].op = "orElse" /\ log[2].fns = <<"recover">>
  /\ Did("unwrapErr") /\ Recv = NewOk(Num(42)) /\ Last.kind = "throw"

\* C10: unwrapOr never throws: ok(v).unwrapOr(d) returns v, err(e).unwrapOr(d)
\* returns d.
C10_UnwrapOr ==
  Did("unwrapOr") =>
    /\ Last.calls = <<>>
    /\ Last.kind = "return"
    /\ Last.val = IF Recv.cls = "Ok" THEN Recv.value ELSE Last.arg

\* unwrapOr on an Err gave the fallback, and before it unwrapOr on an Ok gave the
\* value, which differs from the fallback.
C10_Witness ==
  /\ Len(log) = 3
  /\ log[1].op = "unwrapOr" /\ heap[log[1].recv] = NewOk(Num(0))
  /\ log[1].arg = Num(42) /\ log[1].val = Num(0)
  /\ log[2].op = "andThen" /\ log[2].fns = <<"nonZero">>
  /\ Did("unwrapOr") /\ Recv.cls = "Err" /\ Last.arg = Num(42) /\ Last.val = Num(42)

----------------------------------------------------------------------------
\* The object at address a is exactly one variant: its class, its two flags, its
\* two methods and the two free guards all say the same.
OneVariant(a) ==
  LET o == heap[a]
      mOk == Result_isOk(heap, a)
      mErr == Result_isErr(heap, a)
      gOk == isOk(heap, a)
      gErr == isErr(heap, a)
  IN /\ o.cls \in {"Ok", "Err"}
     /\ o.ok = ~o.err
     /\ o.ok = (o.cls = "Ok")
     /\ mOk.kind = "return" /\ mOk.val = Bool(o.ok)
     /\ mErr.kind = "return" /\ mErr.val = Bool(o.err)
     /\ gOk.kind = "return" /\ gOk.val = mOk.val
     /\ gErr.kind = "return" /\ gErr.val = mErr.val

\* ok(p) builds the Ok variant holding p, err(p) the Err variant holding p (tried
\* in every state on the payload of the Result the caller holds).
BuildsItsVariant(p) ==
  LET a == Len(heap) + 1
      o == ok(heap, p).heap[a]
      e == err(heap, p).heap[a]
  IN /\ o.cls = "Ok" /\ o.ok /\ ~o.err /\ o.value = p
     /\ e.cls = "Err" /\ e.err /\ ~e.ok /\ e.error = p

\* C11: every Result the caller can reach (built by ok/err, or by any sequence of
\* combinators and callbacks) is exactly one variant: ok = ~err, isOk() = ok,
\* isErr() = err, the free guards isOk(r)/isErr(r) agree with the methods; ok(v)
\* builds the Ok variant and err(e) the Err variant.  (Every object of the heap is
\* the Result the caller holds, cur, in the state right after it was built.)
C11_ExactlyOneVariant ==
  /\ OneVariant(cur)
  /\ BuildsItsVariant(IF heap[cur].cls = "Ok" THEN heap[cur].value ELSE heap[cur].error)
  /\ Len(log) > 0 =>
       /\ Last.op \in {"isOk", "isOk(r)"} =>
            Last.kind = "return" /\ Last.val = Bool(Recv.cls = "Ok")
       /\ Last.op \in {"isErr", "isErr(r)"} =>
            Last.kind = "return" /\ Last.val = Bool(Recv.cls = "Err")

\* The free guard and the method were both called on an Err that a callback built,
\* and gave the same answer.
C11_Witness ==
  /\ Len(log) = 3
  /\ log[1].op = "andThen" /\ log[1].fns = <<"nonZero">>
  /\ heap[log[1].recv].cls = "Ok" /\ heap[cur].cls = "Err"
  /\ log[2].op = "isOk" /\ log[2].recv = cur
  /\ Did("isOk(r)") /\ Last.recv = cur
  /\ Last.val = log[2].val /\ Last.val = Bool(FALSE)

----------------------------------------------------------------------------
\* C12: no call mutates a Result: whatever the caller calls (map, mapErr, andThen,
\* orElse, match, unwrap, unwrapOr, unwrapErr, isOk, isErr), and however the call
\* ends (it may throw), every object that existed before the call has the same
\* class, flags and payload after it.  So a Result is for ever as it was built.
C12_NoCallMutatesAResult ==
  [][\A a \in 1..Len(heap) : a <= Len(heap') /\ heap'[a] = heap[a]]_vars

\* Three calls on the same Ok, two of which threw, and the Ok is as it was built.
C12_Witness ==
  /\ Len(log) = 3
  /\ \A k \in 1..3 : log[k].recv = 1
  /\ log[1].op = "unwrapErr" /\ log[1].kind = "throw"
  /\ log[2].op = "match" /\ log[2].kind = "throw"
  /\ log[3].op = "unwrap" /\ log[3].val = Num(2)
  /\ heap = <<NewOk(Num(2))>>

----------------------------------------------------------------------------
\* The last call invoked a callback, and that invocation threw.
CallbackThrew == Last.calls # <<>> /\ Last.calls[Len(Last.calls)].kind = "throw"

\* C19: when a callback that map, mapErr, andThen, orElse or match invokes throws,
\* the call throws the very same value: it returns nothing, no Result (no Err in
\* particular) holds the thrown value, and the caller is left with the receiver.
C19_CallbackExceptionPropagates ==
  (/\ Len(log) > 0
   /\ Last.op \in {"map", "mapErr", "andThen", "orElse", "match"}
   /\ CallbackThrew) =>
    /\ Last.kind = "throw"
    /\ Last.val = Last.calls[Len(Last.calls)].val
    /\ cur = Last.recv
    /\ \A a \in 1..Len(heap) : heap[a].value # Last.val /\ heap[a].error # Last.val

\* mapErr, orElse and match on an Err, each with a callback that threw.
C19_Witness ==
  /\ Len(log) = 3
  /\ \A k \in 1..3 : log[k].recv = 1 /\ log[k].kind = "throw" /\ log[k].val = NewError("boom")
  /\ log[1].op = "mapErr" /\ log[2].op = "orElse" /\ log[3].op = "match"
  /\ heap = <<NewErr(Str("failure"))>>

\* C20: the core throws on its own only in unwrap on an Err and unwrapErr on an Ok:
\* any other call that throws does so because a callback it invoked threw, so
\* with callbacks that do not throw every other call completes normally.
C20_OnlyTheUnwrapsThrow ==
  (Len(log) > 0 /\ Last.kind = "throw") =>
    \/ Last.op = "unwrap" /\ Recv.cls = "Err"
    \/ Last.op = "unwrapErr" /\ Recv.cls = "Ok"
    \/ Last.op \in {"map", "mapErr", "andThen", "orElse", "match"} /\ CallbackThrew

\* unwrapOr and unwrapErr on an Err completed, then unwrap on it threw.
C20_Witness ==
  /\ Len(log) = 3
  /\ \A k \in 1..3 : heap[log[k].recv].cls = "Err"
  /\ log[1].op = "unwrapOr" /\ log[1].kind = "return"
  /\ log[2].op = "unwrapErr" /\ log[2].kind = "return"
  /\ log[3].op = "unwrap" /\ log[3].kind = "throw"

----------------------------------------------------------------------------
\* C13: tryCatch(fn, mapError?).  If fn returns x the result is Ok(x) and mapError
\* is not invoked.  If fn throws c the result is Err(c) when mapError is left out,
\* and Err(mapError(c)) when it is given.  With mapError left out tryCatch never
\* throws.
C13_TryCatch ==
  Did("tryCatch") =>
    LET fn == Last.fns[1]
        mapError == Last.fns[2]
        f == Last.calls[1]
    IN /\ Len(Last.calls) >= 1 /\ f.fn = fn
       /\ f.kind = "return" =>
            /\ Len(Last.calls) = 1
            /\ Last.kind = "return" /\ IsOkWith(Last.val, f.val)
       /\ (f.kind = "throw" /\ mapError = "undefined") =>
            /\ Len(Last.calls) = 1
            /\ Last.kind = "return" /\ IsErrWith(Last.val, f.val)
       /\ (f.kind = "throw" /\ mapError # "undefined") =>
            /\ Len(Last.calls) = 2
            /\ Last.calls[2].fn = mapError /\ Last.calls[2].arg = f.val
            /\ Last.calls[2].kind = "return" =>
                 Last.kind = "return" /\ IsErrWith(Last.val, Last.calls[2].val)
       /\ mapError = "undefined" => Last.kind = "return"
       /\ fn = "ret42" => IsOkWith(Last.val, Num(42))
       /\ (fn = "throwBoom" /\ mapError = "undefined") => IsErrWith(Last.val, Str("boom"))
       /\ (fn = "throwBoom" /\ mapError = "prefix") =>
            IsErrWith(Last.val, Str("Error: boom"))

\* Three calls: fn returned (mapper given, not invoked), fn threw with no mapper,
\* fn threw with a mapper.
C13_Witness ==
  /\ Len(log) = 3
  /\ log[1].fns = <<"ret42", "prefix">> /\ Len(log[1].calls) = 1
  /\ IsOkWith(log[1].val, Num(42))
  /\ log[2].fns = <<"throwError", "undefined">>
  /\ IsErrWith(log[2].val, NewError("Division by zero"))
  /\ log[3].fns = <<"throwBoom", "prefix">>
  /\ IsErrWith(log[3].val, Str("Error: boom"))

----------------------------------------------------------------------------
\* C14: fromPromise(p, mapError?).  If p fulfils with x the returned promise
\* fulfils with Ok(x) and mapError is not invoked.  If p rejects with c the returned
\* promise fulfils (it does not reject) with Err(c) when mapError is left out, and
\* with Err(mapError(c)) when it is given.
C14_FromPromise ==
  cur.pc = "done" =>
    /\ Did("fromPromise")
    /\ cur.input.state = "fulfilled" =>
         /\ Last.calls = <<>>
         /\ cur.output.state = "fulfilled" /\ IsOkWith(cur.output.val, cur.input.val)
    /\ (cur.input.state = "rejected" /\ cur.mapError = "undefined") =>
         /\ Last.calls = <<>>
         /\ cur.output.state = "fulfilled" /\ IsErrWith(cur.output.val, cur.input.val)
    /\ (cur.input.state = "rejected" /\ cur.mapError # "undefined") =>
         /\ InvokedOnce(cur.mapError, cur.input.val)
         /\ Last.calls[1].kind = "return" =>
              /\ cur.output.state = "fulfilled"
              /\ IsErrWith(cur.output.val, Last.calls[1].val)
    /\ (cur.input = Rejected(NewError("failure")) /\ cur.mapError = "prefix") =>
         IsErrWith(cur.output.val, Str("Error: Error: failure"))

\* Two calls: a rejection mapped to an Err, after a fulfilment with a mapper that
\* was not invoked.
C14_Witness ==
  /\ Len(log) = 2 /\ cur.pc = "done"
  /\ log[1].fns = <<"prefix">> /\ log[1].arg = Str("success") /\ log[1].calls = <<>>
  /\ IsOkWith(log[1].val, Str("success"))
  /\ cur.input = Rejected(Str("boom")) /\ cur.mapError = "prefix"
  /\ cur.output.state = "fulfilled" /\ IsErrWith(cur.output.val, Str("Error: boom"))

\* The returned promise has settled.
OutputSettled == cur.output.state \in {"fulfilled", "rejected"}

\* C15: the returned promise settles only in response to the awaited one: it is
\* pending in every state where the awaited promise is pending (so for ever, if
\* that one never settles); once settled it stays as it settled (one settlement);
\* and once the awaited promise has settled, the returned promise eventually
\* settles.
C15_SettlesOnlyWithInput ==
  /\ [](cur.input.state = "pending" => ~OutputSettled)
  /\ [][(OutputSettled /\ cur'.pc # "idle") => cur'.output = cur.output]_vars
  /\ (cur.pc = "awaiting" /\ cur.input.state # "pending") ~> OutputSettled

\* fromPromise was called while the awaited promise was pending, that promise then
\* rejected, and the returned promise has settled.  (The awaited promise is still
\* pending while the caller waits: see the first conjunct of the property.)
C15_Witness ==
  /\ Len(log) = 2 /\ cur.pc = "done"
  /\ cur.input = Rejected(NewError("failure"))
  /\ cur.output.state = "fulfilled"
  /\ IsErrWith(cur.output.val, NewError("failure"))

----------------------------------------------------------------------------
(* all and partition.  The array the caller passed is cur; the properties  *)
(* say what the result is in terms of the array, not of the loops.         *)

\* The variant of the Result a reference points to, and the payloads of an array
\* of references, in order.
IsOkRef(r) == heap[r].cls = "Ok"
IsErrRef(r) == heap[r].cls = "Err"
ValuesOf(refs) == [i \in 1..Len(refs) |-> heap[refs[i]].value]
ErrorsOf(refs) == [i \in 1..Len(refs) |-> heap[refs[i]].error]

\* C16: when every element is Ok, all(results) is an Ok of an array as long as
\* the input whose i-th item is the i-th element's value (order and duplicates
\* kept); all([]) is Ok([]).
C16_AllOfOks ==
  (Did("all") /\ \A i \in 1..Len(cur) : IsOkRef(cur[i])) =>
    /\ Last.kind = "return"
    /\ Last.val.t = "object" /\ Last.val.n \in 1..Len(heap)
    /\ heap[Last.val.n].cls = "Ok" /\ heap[Last.val.n].ok
    /\ heap[Last.val.n].value.t = "array"
    /\ LET items == heap[Last.val.n].value.items
       IN /\ Len(items) = Len(cur)
          /\ \A i \in 1..Len(cur) : items[i] = heap[cur[i]].value
    /\ cur = <<>> => heap[Last.val.n].value = Arr(<<>>)

\* all on three Oks, two of them with the same value, in an order that is not
\* sorted.
C16_Witness ==
  /\ Did("all")
  /\ Len(cur) = 3
  /\ ValuesOf(cur) = <<Num(2), Num(1), Num(2)>> /\ \A i \in 1..3 : IsOkRef(cur[i])
  /\ heap[Last.val.n].value = Arr(<<Num(2), Num(1), Num(2)>>)

\* The index of the first Err of the array.
FirstErrIndex == CHOOSE i \in 1..Len(cur) : IsErrRef(cur[i]) /\ \A j \in 1..(i - 1) : IsOkRef(cur[j])

\* C17: when some element is an Err, all(results) is an Err whose error is the
\* error of the Err with the smallest index, whatever comes before or after it;
\* no list of values is returned.
C17_AllFirstErrWins ==
  (Did("all") /\ \E i \in 1..Len(cur) : IsErrRef(cur[i])) =>
    /\ Last.kind = "return"
    /\ IsErrWith(Last.val, heap[cur[FirstErrIndex]].error)
    /\ heap[Last.val.n].value = Undefined

\* all on [Ok, Err e2, Err e1]: the first Err is neither the first element nor the
\* last Err.
C17_Witness ==
  /\ Did("all")
  /\ Len(cur) = 3
  /\ IsOkRef(cur[1]) /\ heap[cur[2]] = NewErr(Str("e2")) /\ heap[cur[3]] = NewErr(Str("e1"))
  /\ IsErrWith(Last.val, Str("e2"))

\* C18: partition(results) never stops early: oks is the values of all the Ok
\* elements in input order, errs the errors of all the Err elements in input
\* order, for every input (both empty for the empty one).
C18_Partition ==
  Did("partition") =>
    /\ Last.kind = "return"
    /\ Last.val.oks = Arr(ValuesOf(SelectSeq(cur, IsOkRef)))
    /\ Last.val.errs = Arr(ErrorsOf(SelectSeq(cur, IsErrRef)))
    /\ Len(Last.val.oks.items) + Len(Last.val.errs.items) = Len(cur)
    /\ cur = <<>> => Last.val = OksErrs(<<>>, <<>>)

\* partition on [Err, Ok, Err]: an Ok and an Err after the first Err.
C18_Witness ==
  /\ Did("partition")
  /\ Len(cur) = 3
  /\ heap[cur[1]] = NewErr(Str("e2")) /\ heap[cur[2]] = NewOk(Num(1))
  /\ heap[cur[3]] = NewErr(Str("e1"))
  /\ Last.val = OksErrs(<<Num(1)>>, <<Str("e2"), Str("e1")>>)

----------------------------------------------------------------------------
(* Which object a combinator returns.                                      *)

\* The four combinators.
Combinators == {"map", "mapErr", "andThen", "orElse"}

\* The combinator op has nothing to do on a receiver of class cls: the method is
\* `return this`.
PassesThrough(op, cls) ==
  \/ cls = "Ok" /\ op \in {"mapErr", "orElse"}
  \/ cls = "Err" /\ op \in {"map", "andThen"}

\* C21 as stated: every combinator call that returns, returns a Result instance
\* distinct from its receiver, on both variants.
C21_EveryCombinatorReturnsNewInstance ==
  (Len(log) > 0 /\ Last.op \in Combinators /\ Last.kind = "return") =>
    Last.val # Ref(Last.recv)

\* C21 amended: in every step that is a combinator call which returns,
\*  - map on an Ok and mapErr on an Err return a new instance: an object that did
\*    not exist before the call, so distinct from the receiver;
\*  - mapErr and orElse on an Ok, map and andThen on an Err return the receiver
\*    itself, the same object, and build nothing;
\*  - andThen on an Ok and orElse on an Err return the very object their callback
\*    returned.
\* In all cases the receiver is left as it was.
C21_NewInstanceOnlyWhenTransforming ==
  [][LET e == log'[Len(log')]
         cls == heap[cur].cls
     IN (e.op \in Combinators /\ e.kind = "return") =>
          /\ e.recv = cur /\ heap'[cur] = heap[cur]
          /\ IF PassesThrough(e.op, cls)
             THEN e.val = Ref(cur) /\ heap' = heap /\ e.calls = <<>>
             ELSE IF e.op \in {"map", "mapErr"}
                  THEN /\ e.val.t = "object" /\ e.val.n \in 1..Len(heap')
                       /\ e.val.n \notin 1..Len(heap)
                       /\ e.val # Ref(cur)
                       /\ heap'[e.val.n].cls = cls
                  ELSE Len(e.calls) = 1 /\ e.val = e.calls[1].val]_vars

\* map on an Ok returned a new Ok, then mapErr on that Ok returned that very Ok,
\* then andThen on it returned the Err its callback built.
C21_Witness ==
  /\ Len(log) = 3
  /\ log[1].op = "map" /\ log[1].recv = 1 /\ heap[1].cls = "Ok" /\ log[1].val = Ref(2)
  /\ log[2].op = "mapErr" /\ log[2].recv = 2 /\ log[2].val = Ref(2)
  /\ log[3].op = "andThen" /\ log[3].recv = 2 /\ log[3].val = Ref(3)
  /\ heap[3].cls = "Err" /\ Len(heap) = 3

----------------------------------------------------------------------------
(* The functor law of map.                                                 *)

\* Entries i and i + 1 of the log are a chain r.map(f).map(g), and entry k is
\* r.map(x => g(f(x))) on the same r.
MapChainAndComposition(i, k) ==
  /\ log[i].op = "map" /\ log[i + 1].op = "map" /\ log[k].op = "map"
  /\ log[i].fns[1] \in PureFns /\ log[i + 1].fns[1] \in PureFns
  /\ log[i].kind = "return" /\ log[i + 1].recv = log[i].val.n
  /\ log[k].recv = log[i].recv
  /\ log[k].fns = <<Composed(log[i].fns[1], log[i + 1].fns[1])>>

\* C22: the functor law of map.  For every Result r and callbacks f, g that do not
\* throw, r.map(f).map(g) and r.map(x => g(f(x))) both return; on r = ok(v) both
\* are an Ok and the two hold the same value, g(f(v)) with f applied first; on
\* r = err(e) both are an Err holding e.
C22_FunctorLaw ==
  \A i \in 1..(Len(log) - 1) : \A k \in 1..Len(log) :
    MapChainAndComposition(i, k) =>
      LET r == heap[log[i].recv]
          chained == log[i + 1]
          composed == log[k]
      IN /\ chained.kind = "return" /\ composed.kind = "return"
         /\ IF r.cls = "Ok"
            THEN /\ IsOkWith(chained.val, heap[composed.val.n].value)
                 /\ IsOkWith(composed.val, heap[chained.val.n].value)
                 /\ heap[chained.val.n].value =
                      FnBody(heap, chained.fns[1], FnBody(heap, log[i].fns[1], r.value).val).val
                 /\ (r.value = Num(2) /\ log[i].fns[1] = "double" /\ chained.fns[1] = "plusFive")
                      => heap[composed.val.n].value = Num(9)
                 /\ (r.value = Num(2) /\ log[i].fns[1] = "plusFive" /\ chained.fns[1] = "double")
                      => heap[composed.val.n].value = Num(14)
            ELSE /\ IsErrWith(chained.val, r.error)
                 /\ IsErrWith(composed.val, r.error)

\* ok(2).map(double).map(toString) and ok(2).map(x => toString(double(x))) both
\* hold "4", in two different objects.
C22_Witness ==
  /\ Len(log) = 3 /\ heap[1] = NewOk(Num(2))
  /\ MapChainAndComposition(1, 3)
  /\ log[1].fns = <<"double">> /\ log[2].fns = <<"toString">>
  /\ log[3].fns = <<"toString(double(x))">>
  /\ log[2].val # log[3].val
  /\ IsOkWith(log[2].val, Str("4")) /\ IsOkWith(log[3].val, Str("4"))

----------------------------------------------------------------------------
\* The invocations of fn / of the mapper that the last call made, as positions in
\* the order they were made.
FnInvocations == {j \in 1..Len(Last.calls) : Last.calls[j].fn \in Thunks}
MapErrorInvocations == {j \in 1..Len(Last.calls) : Last.calls[j].fn \in MapErrorFns}

\* C23: a call of tryCatch invokes fn exactly once, before it completes (the
\* invocation is among those the call made, and the first of them), and invokes
\* mapError at most once: never when fn returned or when mapError is left out, and
\* otherwise once, after fn threw, with exactly the value fn threw.
C23_TryCatchInvokesOnce ==
  Did("tryCatch") =>
    LET fn == Last.fns[1]
        mapError == Last.fns[2]
    IN /\ FnInvocations = {1}
       /\ Last.calls[1].fn = fn /\ Last.calls[1].arg = Undefined
       /\ Cardinality(MapErrorInvocations) <= 1
       /\ MapErrorInvocations # {} =>
            /\ MapErrorInvocations = {2}
            /\ Last.calls[1].kind = "throw"
            /\ Last.calls[2].fn = mapError
            /\ Last.calls[2].arg = Last.calls[1].val
       /\ (Last.calls[1].kind = "return" \/ mapError = "undefined") =>
            MapErrorInvocations = {}
       /\ (Last.calls[1].kind = "throw" /\ mapError # "undefined") =>
            MapErrorInvocations = {2}

\* fn threw an Error object and the mapper was invoked once, with that object.
C23_Witness ==
  /\ Did("tryCatch")
  /\ Last.fns = <<"throwError", "prefix">>
  /\ Last.calls = <<Invocation("throwError", Undefined, "throw", NewError("Division by zero")),
                    Invocation("prefix", NewError("Division by zero"), "return",
                               Str("Error: Error: Division by zero"))>>

----------------------------------------------------------------------------
\* C24: an exception that mapError itself throws is not captured.  A call
\* tryCatch(fn, mapError) whose mapError threw x throws x to its caller: it
\* returns nothing and no Result holds x.  A call fromPromise(p, mapError) whose
\* mapError threw x has its promise rejected with x, not fulfilled with a Result
\* (the promise is the caller's until it goes on with another one).
C24_MapErrorExceptionEscapes ==
  (Len(log) > 0 /\ CallbackThrew /\ Last.calls[Len(Last.calls)].fn \in MapErrorFns) =>
    LET x == Last.calls[Len(Last.calls)].val
    IN /\ Last.calls[Len(Last.calls)].fn = Last.fns[Len(Last.fns)]
       /\ Last.kind = "throw" /\ Last.val = x
       /\ \A a \in 1..Len(heap) : heap[a].error # x /\ heap[a].value # x
       /\ (Did("fromPromise") /\ cur.pc = "done") =>
            /\ cur.input.state = "rejected"
            /\ cur.output = Rejected(x)

\* tryCatch with a mapper that threw, then fromPromise with a mapper that threw:
\* the first call threw, the promise of the second is rejected, no Result was built.
C24_Witness ==
  /\ Len(log) = 2 /\ heap = <<>>
  /\ log[1].op = "tryCatch" /\ log[1].fns = <<"throwBoom", "thrower">>
  /\ log[1].kind = "throw" /\ log[1].val = NewError("boom")
  /\ Did("fromPromise") /\ Last.fns = <<"thrower">>
  /\ cur.input = Rejected(Str("boom"))
  /\ cur.output = Rejected(NewError("boom"))

----------------------------------------------------------------------------
\* Entry i of the log is all(rs) and entry j is partition(rs), for the same rs.
AllAndPartition(i, j) ==
  /\ log[i].op = "all" /\ log[j].op = "partition"
  /\ log[i].arg = log[j].arg

\* C25: all and partition agree on every array rs: partition's oks and errs are
\* together as long as rs; all(rs) is an Ok exactly when errs is empty, and then
\* its value is the array oks; otherwise all(rs) is an Err whose error is errs[0].
\* And neither call changes rs or its elements: after the call the array holds the
\* same references and every object that existed holds what it held.
C25_AllAgreesWithPartition ==
  /\ [](\A i \in 1..Len(log) : \A j \in 1..Len(log) :
          AllAndPartition(i, j) =>
            LET whole == heap[log[i].val.n]
                oks == log[j].val.oks
                errs == log[j].val.errs
            IN /\ log[i].arg = Arr(cur)
               /\ Len(oks.items) + Len(errs.items) = Len(cur)
               /\ whole.cls = "Ok" <=> errs.items = <<>>
               /\ whole.cls = "Err" <=> errs.items # <<>>
               /\ errs.items = <<>> => IsOkWith(log[i].val, oks)
               /\ errs.items # <<>> => IsErrWith(log[i].val, errs.items[1]))
  /\ [][/\ cur' = cur
        /\ \A a \in 1..Len(heap) : a <= Len(heap') /\ heap'[a] = heap[a]]_vars

\* all and partition on [Ok 2, Err e2, Ok 1, ...]: all is Err(e2), the first of
\* partition's errs, and the elements are as they were.
C25_Witness ==
  /\ Len(log) >= 2 /\ AllAndPartition(1, 2)
  /\ Len(cur) = 3
  /\ heap[1] = NewOk(Num(2)) /\ heap[2] = NewErr(Str("e2")) /\ heap[3] = NewOk(Num(1))
  /\ IsErrWith(log[1].val, Str("e2"))
  /\ log[2].val = OksErrs(<<Num(2), Num(1)>>, <<Str("e2")>>)

====
